---- MODULE Spec2Model ----
(***************************************************************************)
(* CTV campaign dashboard (src/dashboard.py): the dataset loader, the      *)
(* aggregator with its KPI recomputation, the sidebar filter cascade, the  *)
(* budget columns of the two tabs and the display formatter.               *)
(*                                                                         *)
(* A table is a sequence of rows; a row is a function from the column      *)
(* names of the source to cells.  A numeric cell is a record               *)
(* [k, n, d]: k = "num" is the exact rational n/d (d > 0, lowest terms),   *)
(* k = "inf" / "ninf" / "nan" are the IEEE results pandas produces for a   *)
(* division by zero, k = "na" is pd.NA.  A text cell is [k |-> "str", s].  *)
(* Floating-point rounding is abstracted: arithmetic is exact.             *)
(* A text value that the code edits (app names, CSV cells) is a sequence   *)
(* of tokens; a date is the ordinal day of 2025 (1 = 2025-01-01).          *)
(***************************************************************************)
EXTENDS Integers, Sequences, FiniteSets, TLC

\* Largest number of rows of Dataset.csv.
MaxRows == 3
\* datetime.date.today() as an ordinal day of 2025.
Today == 2

VARIABLES
    csv,                 \* the parsed-but-uncleaned rows of Dataset.csv
    df,                  \* the cached dataset returned by load_data()
    pc,                  \* "load" | "loaded" | "aggregated" | "shown"
    group_cols,          \* the argument of the last aggregate_data call
    agg,                 \* the result of the last aggregate_data call
    selected_apps,       \* sidebar multiselect values
    selected_campaigns,
    selected_creatives,
    selected_dates,      \* the tuple st.sidebar.date_input returned
    filtered_df,         \* the record set after the sidebar filters
    num_days,
    kpi,                 \* General tab: total spend and ROAS D7 (%)
    progress,            \* General tab: one budget progress bar per app
    app_level_df,        \* Performance by App, as left after format_metrics
    app_level_shown,     \* what st.dataframe received for it
    day_level_df,
    day_level_shown,
    selected_app,        \* App Analysis tab: the selectbox value
    app_kpi,             \* App Analysis tab: the four KPIs of the app
    campaign_df,         \* Campaign Summary, before the column selection
    campaign_shown,
    creative_summary_df,
    creative_shown,
    campaign_details     \* one expander per campaign of the app

vars == <<csv, df, pc, group_cols, agg, selected_apps, selected_campaigns,
          selected_creatives, selected_dates, filtered_df, num_days, kpi,
          progress, app_level_df, app_level_shown, day_level_df,
          day_level_shown, selected_app, app_kpi, campaign_df, campaign_shown,
          creative_summary_df, creative_shown, campaign_details>>

dashVars == <<selected_apps, selected_campaigns, selected_creatives,
              selected_dates, filtered_df, num_days, kpi, progress,
              app_level_df, app_level_shown, day_level_df, day_level_shown,
              selected_app, app_kpi, campaign_df, campaign_shown,
              creative_summary_df, creative_shown, campaign_details>>

-----------------------------------------------------------------------------
(* Numbers *)

Abs(x) == IF x < 0 THEN -x ELSE x

Min2(a, b) == IF a <= b THEN a ELSE b

RECURSIVE GCD(_, _)
GCD(a, b) == IF b = 0 THEN a ELSE GCD(b, a % b)

RECURSIVE Pow10(_)
Pow10(e) == IF e = 0 THEN 1 ELSE 10 * Pow10(e - 1)

\* The number n/d (d # 0) in lowest terms with a positive denominator.
Float(n, d) ==
    LET g == GCD(Abs(n), Abs(d))
        s == IF d < 0 THEN -1 ELSE 1
    IN  [k |-> "num", n |-> (s * n) \div g, d |-> (s * d) \div g]

Num(n) == Float(n, 1)
NaN == [k |-> "nan", n |-> 0, d |-> 1]
Inf == [k |-> "inf", n |-> 0, d |-> 1]
NegInf == [k |-> "ninf", n |-> 0, d |-> 1]
NA == [k |-> "na", n |-> 0, d |-> 1]
Str(s) == [k |-> "str", s |-> s]

\* -1, 0 or 1: the sign of a number or an infinity.
Sign(a) ==
    CASE a.k = "inf" -> 1
      [] a.k = "ninf" -> -1
      [] OTHER -> IF a.n > 0 THEN 1 ELSE IF a.n < 0 THEN -1 ELSE 0

Signed(s) == IF s > 0 THEN Inf ELSE IF s < 0 THEN NegInf ELSE NaN

\* pandas / numpy true division: x/0 is +-inf, 0/0 is NaN, nothing raises.
Div(a, b) ==
    IF a.k \in {"nan", "na"} \/ b.k \in {"nan", "na"} THEN NaN
    ELSE IF a.k = "num" /\ b.k = "num" THEN
        IF b.n = 0 THEN Signed(Sign(a)) ELSE Float(a.n * b.d, a.d * b.n)
    ELSE IF b.k = "num" THEN Signed(Sign(a) * (IF b.n < 0 THEN -1 ELSE 1))
    ELSE IF a.k = "num" THEN Num(0)
    ELSE NaN

Mul(a, b) ==
    IF a.k \in {"nan", "na"} \/ b.k \in {"nan", "na"} THEN NaN
    ELSE IF a.k = "num" /\ b.k = "num" THEN Float(a.n * b.n, a.d * b.d)
    ELSE Signed(Sign(a) * Sign(b))

Add(a, b) ==
    IF a.k \in {"nan", "na"} \/ b.k \in {"nan", "na"} THEN NaN
    ELSE IF a.k = "num" /\ b.k = "num" THEN Float(a.n * b.d + b.n * a.d, a.d * b.d)
    ELSE IF a.k = "num" THEN b
    ELSE IF b.k = "num" \/ a.k = b.k THEN a
    ELSE NaN

\* x > 0 as Python evaluates it (False for NaN).
Positive(a) == a.k = "inf" \/ (a.k = "num" /\ a.n > 0)

\* n/d rounded to an integer, ties to even (round(), numpy.round, format).
RoundHalfEven(n, d) ==
    LET q == n \div d
        r == n - q * d
    IN  IF 2 * r < d THEN q
        ELSE IF 2 * r > d THEN q + 1
        ELSE IF q % 2 = 0 THEN q ELSE q + 1

\* Series.round(p): the nearest multiple of 10^-p.
Round(a, p) ==
    IF a.k # "num" THEN a
    ELSE Float(RoundHalfEven(a.n * Pow10(p), a.d), Pow10(p))

-----------------------------------------------------------------------------
(* Text *)

\* Series.str.replace(c, ""): drop every occurrence of the character c.
StrReplace(s, c) == SelectSeq(s, LAMBDA t : t # c)

DigitVal(c) ==
    CASE c = "0" -> 0 [] c = "1" -> 1 [] c = "2" -> 2 [] c = "3" -> 3
      [] c = "4" -> 4 [] c = "5" -> 5 [] c = "6" -> 6 [] c = "7" -> 7
      [] c = "8" -> 8 [] c = "9" -> 9

\* astype(int) of a string of digits.
RECURSIVE AsInt(_)
AsInt(s) ==
    IF s = <<>> THEN 0
    ELSE 10 * AsInt(SubSeq(s, 1, Len(s) - 1)) + DigitVal(s[Len(s)])

\* astype(float) of digits with at most one decimal point.
AsFloat(s) ==
    LET dots == {i \in 1..Len(s) : s[i] = "."}
    IN  IF dots = {} THEN Num(AsInt(s))
        ELSE LET p == CHOOSE i \in dots : TRUE
             IN  Float(AsInt(StrReplace(s, ".")), Pow10(Len(s) - p))

\* pd.to_datetime(<<dd, "Mon", yy>>, format="%d-%b-%y") as an ordinal of 2025.
MonthOffset(b) == CASE b = "Jan" -> 0 [] b = "Feb" -> 31 [] b = "Mar" -> 59

ToDatetime(s) == (s[3] - 25) * 365 + MonthOffset(s[2]) + s[1]

IsSpace(t) == t \in {" ", "\t"}

\* str.strip(): drop leading and trailing whitespace tokens.
RECURSIVE Strip(_)
Strip(s) ==
    IF s = <<>> THEN s
    ELSE IF IsSpace(s[1]) THEN Strip(Tail(s))
    ELSE IF IsSpace(s[Len(s)]) THEN Strip(SubSeq(s, 1, Len(s) - 1))
    ELSE s

\* Code-point order of the tokens app names are made of.
TokenRank(t) ==
    CASE t = "\t" -> 0 [] t = " " -> 1 [] t = "MaxiBingo" -> 2
      [] t = "maxibingo" -> 3

RECURSIVE StrLess(_, _)
StrLess(a, b) ==
    IF b = <<>> THEN FALSE
    ELSE IF a = <<>> THEN TRUE
    ELSE IF a[1] # b[1] THEN TokenRank(a[1]) < TokenRank(b[1])
    ELSE StrLess(Tail(a), Tail(b))

-----------------------------------------------------------------------------
(* Tables *)

KeyCols == {"App Name", "Campaign Id", "Creative Id", "Date"}

\* f over each row of table t.
MapRows(t, f(_)) == [i \in 1..Len(t) |-> f(t[i])]

\* Series.unique(): the distinct values of a column, in order of appearance.
RECURSIVE Unique(_)
Unique(s) ==
    IF s = <<>> THEN <<>>
    ELSE LET u == Unique(SubSeq(s, 1, Len(s) - 1))
             x == s[Len(s)]
         IN  IF \E i \in 1..Len(u) : u[i] = x THEN u ELSE Append(u, x)

Column(t, c) == [i \in 1..Len(t) |-> t[i][c]]

Range(s) == {s[i] : i \in 1..Len(s)}

\* Series.sum() of a numeric column (0 for an empty one).
RECURSIVE SumCells(_)
SumCells(s) == IF s = <<>> THEN Num(0) ELSE Add(s[1], SumCells(Tail(s)))

\* Series.mean() of a numeric column (NaN for an empty one).
Mean(s) == Div(SumCells(s), Num(Len(s)))

\* ReplaceInf with the replacement left out.
ReplaceInfSkipped(t) == t

\* DataFrame.replace([inf, -inf], pd.NA) on the non-key columns.
ReplaceInf(t) ==
    MapRows(t, LAMBDA r :
        [c \in DOMAIN r |->
            IF c \notin KeyCols /\ r[c].k \in {"inf", "ninf"} THEN NA ELSE r[c]])

\* DataFrame.fillna(0).
FillNa(t) ==
    MapRows(t, LAMBDA r :
        [c \in DOMAIN r |->
            IF c \notin KeyCols /\ r[c].k \in {"nan", "na"} THEN Num(0) ELSE r[c]])

-----------------------------------------------------------------------------
(* load_data *)

Thousand == Num(1000)

load_data(rows) ==
    LET clean(r) ==
            [c \in DOMAIN r |->
                CASE c = "Impressions" -> Num(AsInt(StrReplace(r[c], ",")))
                  [] c = "Attribution %" -> Div(AsFloat(StrReplace(r[c], "%")), Num(100))
                  [] c = "ROAS D7" -> Div(AsFloat(StrReplace(r[c], "%")), Num(100))
                  [] c = "Date" -> ToDatetime(r[c])
                  [] OTHER -> r[c]]
        calc(r) ==
            r @@ ("CPI" :> Div(r["Spend ($)"], r["Installs"]))
              @@ ("IPM" :> Div(r["Installs"], Div(r["Impressions"], Thousand)))
              @@ ("CPM" :> Div(r["Spend ($)"], Div(r["Impressions"], Thousand)))
              @@ ("ROAS D7_calc" :> Div(r["Revenue D7"], r["Spend ($)"]))
              @@ ("Payers %" :> Div(r["Payers D7"], r["Installs"]))
              @@ ("ARPI" :> Div(r["Revenue D7"], r["Installs"]))
              @@ ("ARPP" :> Div(r["Revenue D7"], r["Payers D7"]))
    IN  FillNa(ReplaceInf(MapRows(rows, LAMBDA r : calc(clean(r)))))

-----------------------------------------------------------------------------
(* aggregate_data *)

CellLess(c, a, b) == IF c = "App Name" THEN StrLess(a, b) ELSE a < b

KeyOf(r, cols) == [i \in 1..Len(cols) |-> r[cols[i]]]

RECURSIVE KeyLess(_, _, _)
KeyLess(cols, a, b) ==
    IF cols = <<>> THEN FALSE
    ELSE IF a[1] # b[1] THEN CellLess(cols[1], a[1], b[1])
    ELSE KeyLess(Tail(cols), Tail(a), Tail(b))

\* The sorted sequence ks with the key x inserted, unless it is there already.
RECURSIVE InsertKey(_, _, _)
InsertKey(cols, ks, x) ==
    IF ks = <<>> THEN <<x>>
    ELSE IF ks[1] = x THEN ks
    ELSE IF KeyLess(cols, x, ks[1]) THEN <<x>> \o ks
    ELSE <<ks[1]>> \o InsertKey(cols, Tail(ks), x)

\* GroupKeys that starts a new group at every change of key, as a grouping
\* of consecutive rows does.
RECURSIVE GroupKeysConsecutive(_, _)
GroupKeysConsecutive(t, cols) ==
    IF t = <<>> THEN <<>>
    ELSE LET ks == GroupKeysConsecutive(SubSeq(t, 1, Len(t) - 1), cols)
             x == KeyOf(t[Len(t)], cols)
         IN  IF ks # <<>> /\ ks[Len(ks)] = x THEN ks ELSE Append(ks, x)

\* DataFrame.groupby(cols): the distinct keys, sorted (sort=True).
RECURSIVE GroupKeys(_, _)
GroupKeys(t, cols) ==
    IF t = <<>> THEN <<>>
    ELSE InsertKey(cols, GroupKeys(SubSeq(t, 1, Len(t) - 1), cols),
                   KeyOf(t[Len(t)], cols))

\* The rows of one group.
GroupRows(t, cols, key) == SelectSeq(t, LAMBDA r : KeyOf(r, cols) = key)

KpiCols == {"CPI", "IPM", "CPM", "ROAS D7", "Payers %", "ARPI", "ARPP"}

SumCols == {"Spend ($)", "Installs", "Impressions", "Payers D7", "Revenue D7"}

\* .agg({...: "sum", "Attribution %": "mean"}) of one group.
GroupAgg(t, cols, key) ==
    LET g == GroupRows(t, cols, key)
    IN  [c \in Range(cols) \cup SumCols \cup {"Attribution %"} |->
            IF c \in Range(cols)
            THEN key[CHOOSE i \in 1..Len(cols) : cols[i] = c]
            ELSE IF c = "Attribution %" THEN Mean(Column(g, c))
            ELSE SumCells(Column(g, c))]

\* The "RECALCULATE KPIs" block, for one aggregated row.
RecalculateKpis(a) ==
    a @@ ("CPI" :> Div(a["Spend ($)"], a["Installs"]))
      @@ ("IPM" :> Div(a["Installs"], Div(a["Impressions"], Thousand)))
      @@ ("CPM" :> Div(a["Spend ($)"], Div(a["Impressions"], Thousand)))
      @@ ("ROAS D7" :> Div(a["Revenue D7"], a["Spend ($)"]))
      @@ ("Payers %" :> Div(a["Payers D7"], a["Installs"]))
      @@ ("ARPI" :> Div(a["Revenue D7"], a["Installs"]))
      @@ ("ARPP" :> Div(a["Revenue D7"], a["Payers D7"]))

\* aggregate_data with the KPIs averaged over the rows of the group
\* ("CPI": "mean", ...) instead of recomputed from the sums.
aggregate_data_avg(t, cols) ==
    LET keys == GroupKeys(t, cols)
        grouped ==
            [i \in 1..Len(keys) |->
                GroupAgg(t, cols, keys[i])
                @@ [m \in KpiCols |->
                       Mean(Column(GroupRows(t, cols, keys[i]),
                                   IF m = "ROAS D7" THEN "ROAS D7_calc" ELSE m))]]
    IN  FillNa(ReplaceInf(grouped))

aggregate_data(t, cols) ==
    LET keys == GroupKeys(t, cols)
        grouped == [i \in 1..Len(keys) |-> GroupAgg(t, cols, keys[i])]
    IN  FillNa(ReplaceInf(MapRows(grouped, RecalculateKpis)))

-----------------------------------------------------------------------------
(* Dataset.csv *)

CsvRow(app, camp, crea, date, spend, inst, impr, attr, rev, pay, roas) ==
    ("App Name" :> app) @@ ("Campaign Id" :> camp) @@ ("Creative Id" :> crea)
    @@ ("Date" :> date) @@ ("Spend ($)" :> Num(spend)) @@ ("Installs" :> Num(inst))
    @@ ("Impressions" :> impr) @@ ("Attribution %" :> attr)
    @@ ("Revenue D7" :> Num(rev)) @@ ("Payers D7" :> Num(pay)) @@ ("ROAS D7" :> roas)

\* The rows a dataset is drawn from: two campaigns, two creatives, three
\* days, app names that differ in case and surrounding whitespace, and base
\* fields with each of the four denominators at zero.
CsvRows ==
    << CsvRow(<<"MaxiBingo">>, 1, 1, <<1, "Jan", 25>>, 100, 10,
              <<"5", ",", "0", "0", "0">>, <<"5", "0", "%">>, 50, 2,
              <<"5", "0", "%">>),
       CsvRow(<<"MaxiBingo">>, 1, 2, <<2, "Jan", 25>>, 200, 0,
              <<"0">>, <<"0", "%">>, 0, 0, <<"0", "%">>),
       CsvRow(<<"MaxiBingo">>, 2, 1, <<2, "Jan", 25>>, 0, 5,
              <<"1", ",", "0", "0", "0">>, <<"2", "5", "%">>, 20, 0,
              <<"0", "%">>),
       CsvRow(<<" ", "MaxiBingo">>, 1, 1, <<3, "Jan", 25>>, 9000, 30,
              <<"2", "0", ",", "0", "0", "0">>, <<"7", ".", "3", "2", "%">>,
              450, 3, <<"5", "%">>),
       CsvRow(<<"maxibingo">>, 2, 2, <<1, "Jan", 25>>, 50, 4,
              <<"0">>, <<"1", "0", "0", "%">>, 0, 1, <<"0", "%">>) >>

\* Every dataset of at most MaxRows rows, in any order, repeats included.
CsvSeqs ==
    UNION {[1..n -> Range(CsvRows)] : n \in 0..MaxRows}

\* The datasets without repeated rows, in the order of CsvRows.
CsvSubsets ==
    {s \in UNION {[1..n -> 1..Len(CsvRows)] : n \in 0..Min2(MaxRows, Len(CsvRows))} :
        \A i \in 1..(Len(s) - 1) : s[i] < s[i + 1]}

\* The grouping keys the dashboard aggregates by, and two more.
GroupColLists ==
    { <<"App Name">>, <<"Date">>, <<"App Name", "Campaign Id">>,
      <<"App Name", "Creative Id">>,
      <<"App Name", "Campaign Id", "Creative Id">>,
      <<"Campaign Id", "Creative Id">>, <<"Date", "App Name">> }

-----------------------------------------------------------------------------
(* The loader and the aggregator on their own *)

DashIdle ==
    /\ selected_apps = <<>> /\ selected_campaigns = <<>>
    /\ selected_creatives = <<>> /\ selected_dates = <<>>
    /\ filtered_df = <<>> /\ num_days = NaN /\ kpi = <<>> /\ progress = <<>>
    /\ app_level_df = <<>> /\ app_level_shown = <<>>
    /\ day_level_df = <<>> /\ day_level_shown = <<>>
    /\ selected_app = <<>> /\ app_kpi = <<>>
    /\ campaign_df = <<>> /\ campaign_shown = <<>>
    /\ creative_summary_df = <<>> /\ creative_shown = <<>>
    /\ campaign_details = <<>>

InitAgg ==
    /\ csv \in CsvSeqs
    /\ df = <<>> /\ pc = "load" /\ group_cols = <<>> /\ agg = <<>>
    /\ DashIdle

\* df = load_data()
LoadData ==
    /\ pc = "load"
    /\ df' = load_data(csv)
    /\ pc' = "loaded"
    /\ UNCHANGED <<csv, group_cols, agg, dashVars>>

\* agg = aggregate_data(df, cols)
AggregateData ==
    /\ pc = "loaded"
    /\ \E cols \in GroupColLists :
        /\ group_cols' = cols
        /\ agg' = aggregate_data(df, cols)
    /\ pc' = "aggregated"
    /\ UNCHANGED <<csv, df, dashVars>>

NextAgg == LoadData \/ AggregateData

SpecAgg == InitAgg /\ [][NextAgg]_vars

-----------------------------------------------------------------------------
(* The metric table of the specification, stated on its own terms *)

\* numerator / denominator, and 0 when the denominator is 0.
Ratio(num, den) == IF den.n = 0 THEN Num(0) ELSE Float(num.n * den.d, num.d * den.n)

\* The metric m of a row or group with the given base fields.
Metric(m, b) ==
    CASE m = "CPI" -> Ratio(b["Spend ($)"], b["Installs"])
      [] m = "IPM" -> Ratio(Mul(b["Installs"], Thousand), b["Impressions"])
      [] m = "CPM" -> Ratio(Mul(b["Spend ($)"], Thousand), b["Impressions"])
      [] m \in {"ROAS D7", "ROAS D7_calc"} -> Ratio(b["Revenue D7"], b["Spend ($)"])
      [] m = "Payers %" -> Ratio(b["Payers D7"], b["Installs"])
      [] m = "ARPI" -> Ratio(b["Revenue D7"], b["Installs"])
      [] m = "ARPP" -> Ratio(b["Revenue D7"], b["Payers D7"])

Denominator(m) ==
    CASE m \in {"CPI", "Payers %", "ARPI"} -> "Installs"
      [] m \in {"IPM", "CPM"} -> "Impressions"
      [] m \in {"ROAS D7", "ROAS D7_calc"} -> "Spend ($)"
      [] m = "ARPP" -> "Payers D7"

RowKpiCols == (KpiCols \ {"ROAS D7"}) \cup {"ROAS D7_calc"}

\* The sum of column c over the rows of t whose index is in I.
RECURSIVE SumOver(_, _, _)
SumOver(t, c, I) ==
    IF I = {} THEN Num(0)
    ELSE LET i == CHOOSE j \in I : TRUE
         IN  Add(t[i][c], SumOver(t, c, I \ {i}))

\* The indices of the rows of t that have the key of group g.
Members(t, cols, g) == {i \in 1..Len(t) : KeyOf(t[i], cols) = KeyOf(g, cols)}

\* The base fields of group g, summed over its rows of t.
BaseSums(t, cols, g) == [c \in SumCols |-> SumOver(t, c, Members(t, cols, g))]

NonNegative(r) == \A c \in SumCols : r[c].k = "num" /\ r[c].n >= 0

-----------------------------------------------------------------------------
(* C1: in every row load_data returns and in every group aggregate_data    *)
(* returns, the base fields being non-negative, each of the seven derived  *)
(* metrics is a finite number, and it is exactly 0 when its denominator    *)
(* (installs, impressions, spend or payers) is 0, the 0/0 case included.   *)
C1_ZeroDenominatorIsZero ==
    /\ pc # "load" =>
        \A i \in 1..Len(df) : \A m \in RowKpiCols :
            NonNegative(df[i]) =>
                /\ df[i][m].k = "num"
                /\ df[i][Denominator(m)].n = 0 => df[i][m] = Num(0)
    /\ pc = "aggregated" =>
        \A i \in 1..Len(agg) : \A m \in KpiCols :
            NonNegative(agg[i]) =>
                /\ agg[i][m].k = "num"
                /\ agg[i][Denominator(m)].n = 0 => agg[i][m] = Num(0)

\* A group of two rows with spend but no installs and no impressions
\* (x/0), no revenue and no payers (0/0), beside a row with revenue but no
\* spend and no payers.
C1_Witness ==
    /\ pc = "aggregated"
    /\ \E i \in 1..Len(agg) :
        /\ Cardinality(Members(df, group_cols, agg[i])) >= 2
        /\ agg[i]["Spend ($)"].n > 0
        /\ agg[i]["Installs"].n = 0 /\ agg[i]["Impressions"].n = 0
        /\ agg[i]["Revenue D7"].n = 0 /\ agg[i]["Payers D7"].n = 0
        /\ agg[i]["CPI"] = Num(0) /\ agg[i]["ARPP"] = Num(0)
    /\ \E i \in 1..Len(df) :
        /\ df[i]["Spend ($)"].n = 0 /\ df[i]["Revenue D7"].n > 0
        /\ df[i]["Payers D7"].n = 0
        /\ df[i]["ROAS D7_calc"] = Num(0) /\ df[i]["ARPP"] = Num(0)

(* C2: every group's derived metrics are the metric formulas applied once  *)
(* to the group's summed base fields, its attribution is the arithmetic    *)
(* mean of its rows' attribution, and the single record {spend 100,        *)
(* installs 10, impressions 5000, revenue 50, payers 2} aggregated by app  *)
(* gives CPI 10, IPM 2, CPM 20, ROAS 0.5, Payers % 0.2, ARPI 5, ARPP 25.   *)
C2_MetricsFromSums ==
    pc = "aggregated" =>
        /\ \A i \in 1..Len(agg) :
            LET I == Members(df, group_cols, agg[i])
                b == BaseSums(df, group_cols, agg[i])
            IN  /\ \A m \in KpiCols : agg[i][m] = Metric(m, b)
                /\ agg[i]["Attribution %"]
                       = Div(SumOver(df, "Attribution %", I), Num(Cardinality(I)))
        /\ (csv = <<CsvRows[1]>> /\ group_cols = <<"App Name">>) =>
            /\ Len(agg) = 1
            /\ agg[1]["CPI"] = Num(10) /\ agg[1]["IPM"] = Num(2)
            /\ agg[1]["CPM"] = Num(20) /\ agg[1]["ROAS D7"] = Float(1, 2)
            /\ agg[1]["Payers %"] = Float(1, 5) /\ agg[1]["ARPI"] = Num(5)
            /\ agg[1]["ARPP"] = Num(25)

\* A group of several rows whose CPI differs from the mean of its rows' CPI
\* and whose attribution is the mean of differing values.
C2_Witness ==
    /\ pc = "aggregated"
    /\ \E i \in 1..Len(agg) :
        LET I == Members(df, group_cols, agg[i])
        IN  /\ Cardinality(I) >= 2
            /\ agg[i]["CPI"] # Div(SumOver(df, "CPI", I), Num(Cardinality(I)))
            /\ agg[i]["CPI"].n > 0
            /\ \E j, k \in I : df[j]["Attribution %"] # df[k]["Attribution %"]

(* C3: aggregate_data returns exactly one group per distinct combination   *)
(* of key values present in its input (none for an empty input), each      *)
(* group's spend, installs, impressions, payers and revenue are the sums   *)
(* over exactly the rows with that combination, and every permutation of   *)
(* the input rows gives the same set of groups.                            *)
C3_OneGroupPerKey ==
    pc = "aggregated" =>
        /\ {KeyOf(agg[i], group_cols) : i \in 1..Len(agg)}
               = {KeyOf(df[i], group_cols) : i \in 1..Len(df)}
        /\ Len(agg) = Cardinality({KeyOf(df[i], group_cols) : i \in 1..Len(df)})
        /\ \A i \in 1..Len(agg) : \A c \in SumCols :
               agg[i][c] = SumOver(df, c, Members(df, group_cols, agg[i]))
        /\ \A p \in Permutations(1..Len(df)) :
               Range(aggregate_data([i \in 1..Len(df) |-> df[p[i]]], group_cols))
                   = Range(agg)

\* Three rows grouped by two keys: the first and the last share a key
\* combination that the middle one does not have.
C3_Witness ==
    /\ pc = "aggregated" /\ Len(df) = 3 /\ Len(group_cols) = 2
    /\ KeyOf(df[1], group_cols) = KeyOf(df[3], group_cols)
    /\ KeyOf(df[1], group_cols) # KeyOf(df[2], group_cols)
    /\ df[1] # df[3]
    /\ Len(agg) = 2
    /\ \E i \in 1..Len(agg) : agg[i]["Spend ($)"] = Add(df[1]["Spend ($)"], df[3]["Spend ($)"])

-----------------------------------------------------------------------------
(* Display strings *)

\* The decimal digits of n, left-padded with zeros to width w.
RECURSIVE ZeroPad(_, _)
ZeroPad(n, w) == IF w = 0 THEN "" ELSE ZeroPad(n \div 10, w - 1) \o ToString(n % 10)

\* The digits of n in groups of three separated by sep (the "," option).
RECURSIVE Grouped(_, _)
Grouped(n, sep) ==
    IF n < 1000 THEN ToString(n)
    ELSE Grouped(n \div 1000, sep) \o sep \o ZeroPad(n % 1000, 3)

\* format(x, ",.pf") with sep for the grouping character: p decimals,
\* ties to even; "inf", "-inf" and "nan" for the non-finite values.
FormatFixed(v, p, sep) ==
    CASE v.k = "inf" -> "inf"
      [] v.k = "ninf" -> "-inf"
      [] v.k \in {"nan", "na"} -> "nan"
      [] OTHER ->
        LET t == RoundHalfEven(Abs(v.n) * Pow10(p), v.d)
            whole == IF sep = "" THEN ToString(t \div Pow10(p))
                     ELSE Grouped(t \div Pow10(p), sep)
        IN  (IF v.n < 0 THEN "-" ELSE "") \o whole
            \o (IF p = 0 THEN "" ELSE "." \o ZeroPad(t % Pow10(p), p))

\* pd.notna(x) and isinstance(x, (int, float))
IsNumber(x) == x.k \in {"num", "inf", "ninf"}

\* f"{x:,.0f}".replace(",", ".")
FormatThousand(x) == IF IsNumber(x) THEN Str(FormatFixed(x, 0, ".")) ELSE x

\* f"{x:.2%}"
FormatPercent(x) ==
    IF IsNumber(x) THEN Str(FormatFixed(Mul(x, Num(100)), 2, "") \o "%") ELSE x

\* f"{x:.2f}"
FormatDecimal(x) == IF IsNumber(x) THEN Str(FormatFixed(x, 2, "")) ELSE x

thousand_cols ==
    {"Spend ($)", "Installs", "Impressions", "Revenue D7", "Payers D7", "Total Budget ($)"}

percent_cols == {"Attribution %", "Payers %"}

decimal_cols == {"CPI", "IPM", "CPM", "ARPI", "ARPP"}

\* format_metrics without the copy: the columns are rewritten in the
\* argument itself.
format_metrics_inplace(t) ==
    LET df_fmt ==
            MapRows(t, LAMBDA r :
                [c \in DOMAIN r |->
                    IF c \in thousand_cols THEN FormatThousand(r[c])
                    ELSE IF c \in percent_cols THEN FormatPercent(r[c])
                    ELSE IF c \in decimal_cols THEN FormatDecimal(r[c])
                    ELSE r[c]])
    IN  [df |-> df_fmt, ret |-> df_fmt]

\* format_metrics(df): df is the table the caller passed, as the call leaves
\* it; ret is the table returned.  The columns are rewritten in df_fmt, a
\* copy of the argument.
format_metrics(t) ==
    LET df_fmt ==
            MapRows(t, LAMBDA r :
                [c \in DOMAIN r |->
                    IF c \in thousand_cols THEN FormatThousand(r[c])
                    ELSE IF c \in percent_cols THEN FormatPercent(r[c])
                    ELSE IF c \in decimal_cols THEN FormatDecimal(r[c])
                    ELSE r[c]])
    IN  [df |-> t, ret |-> df_fmt]

\* (s * 100).round(1).astype(str) + "%"
PercentText(x) == Str(FormatFixed(Round(Mul(x, Num(100)), 1), 1, "") \o "%")

\* pd.to_numeric(s, errors="coerce").round(1).astype(str) + "%"
RoundedText(x) == Str(FormatFixed(Round(x, 1), 1, "") \o "%")

\* frame[[cols]]
Project(t, cols) == MapRows(t, LAMBDA r : [c \in cols |-> r[c]])

-----------------------------------------------------------------------------
(* Sidebar filters *)

\* What a multiselect can return: any selection of its options.
RECURSIVE Sublists(_)
Sublists(s) ==
    IF s = <<>> THEN {<<>>}
    ELSE LET rest == Sublists(Tail(s))
         IN  rest \cup {<<s[1]>> \o x : x \in rest}

\* frame[frame[c].isin(selected)]
IsIn(t, c, selected) == SelectSeq(t, LAMBDA r : r[c] \in Range(selected))

ColMin(t, c) == CHOOSE x \in Range(Column(t, c)) : \A y \in Range(Column(t, c)) : x <= y

ColMax(t, c) == CHOOSE x \in Range(Column(t, c)) : \A y \in Range(Column(t, c)) : x >= y

\* (min_date, max_date): the range of the data left by the three selections,
\* or 2025-01-01 .. today when nothing is left.
DateBounds(t) ==
    IF t # <<>> THEN <<ColMin(t, "Date"), ColMax(t, "Date")>> ELSE <<1, Today>>

\* What st.sidebar.date_input can return for a range: no date, the start
\* alone, or two dates between min_value and max_value.  The script puts no
\* order on the two dates it receives.
DateInputs(b) ==
    {<<>>} \cup {<<x>> : x \in b[1]..b[2]}
           \cup {<<x, y>> : x \in b[1]..b[2], y \in b[1]..b[2]}

\* DateFilter with the end of the range excluded.
DateFilterExclusiveEnd(t, dates) ==
    IF Len(dates) = 2
    THEN SelectSeq(t, LAMBDA r : r["Date"] >= dates[1] /\ r["Date"] < dates[2])
    ELSE t

\* DateFilter with the start of the range excluded.
DateFilterExclusiveStart(t, dates) ==
    IF Len(dates) = 2
    THEN SelectSeq(t, LAMBDA r : r["Date"] > dates[1] /\ r["Date"] <= dates[2])
    ELSE t

\* The "APPLY DATE FILTER" block.
DateFilter(t, dates) ==
    IF Len(dates) = 2
    THEN SelectSeq(t, LAMBDA r : r["Date"] >= dates[1] /\ r["Date"] <= dates[2])
    ELSE t

-----------------------------------------------------------------------------
(* Budgets *)

daily_budget == (<<"MaxiBingo">> :> 4000) @@ (<<"default">> :> 2000)

\* DailyCap that looks the name up as it is, untrimmed.
DailyCapNoStrip(app) ==
    IF app \in DOMAIN daily_budget THEN daily_budget[app]
    ELSE daily_budget[<<"default">>]

\* daily_budget.get(str(app).strip(), daily_budget["default"])
DailyCap(app) ==
    IF Strip(app) \in DOMAIN daily_budget THEN daily_budget[Strip(app)]
    ELSE daily_budget[<<"default">>]

\* NumDays that counts the nights, not the days, of the range.
NumDaysNoPlusOne(t, dates) ==
    IF Len(dates) = 2 THEN Num(dates[2] - dates[1])
    ELSE IF t = <<>> THEN NaN
    ELSE Num(ColMax(t, "Date") - ColMin(t, "Date"))

\* num_days of the General tab; NaN when no range is selected and no record
\* is left (NaT - NaT).
NumDays(t, dates) ==
    IF Len(dates) = 2 THEN Num(dates[2] - dates[1] + 1)
    ELSE IF t = <<>> THEN NaN
    ELSE Num(ColMax(t, "Date") - ColMin(t, "Date") + 1)

\* total / spend * 100 if spend > 0 else 0, the ROAS D7 (%) KPI.
RoasPct(t) ==
    LET total_spend == SumCells(Column(t, "Spend ($)"))
        total_revenue == SumCells(Column(t, "Revenue D7"))
    IN  IF Positive(total_spend)
        THEN Mul(Div(total_revenue, total_spend), Num(100)) ELSE Num(0)

\* The KPI section of the General tab.
GeneralKpis(t) ==
    [total_spend |-> Str(FormatFixed(SumCells(Column(t, "Spend ($)")), 0, ",")),
     roas |-> Str(FormatFixed(RoasPct(t), 1, "") \o "%")]

\* (spend / total_budget) * 100 if total_budget > 0 else 0
PctUsed(spend, total_budget) ==
    IF Positive(total_budget) THEN Mul(Div(spend, total_budget), Num(100)) ELSE Num(0)

\* min(pct_used / 100, 1.0)
PctDisplay(pct_used) ==
    LET x == Div(pct_used, Num(100))
    IN  IF x.k = "num" /\ x.n < x.d THEN x ELSE Num(1)

\* The "VISUAL BUDGET USAGE" loop: one bar per row of spend_by_app.
BudgetBars(t, days) ==
    MapRows(Project(aggregate_data(t, <<"App Name">>), {"App Name", "Spend ($)"}),
        LAMBDA row :
            LET spend == row["Spend ($)"]
                total_budget == Mul(Num(DailyCap(row["App Name"])), days)
                pct_used == PctUsed(spend, total_budget)
            IN  [app_name |-> row["App Name"], spend |-> spend,
                 total_budget |-> total_budget, pct_used |-> pct_used,
                 pct_display |-> PctDisplay(pct_used),
                 text |-> FormatFixed(pct_used, 1, "") \o "% of budget used ($"
                          \o FormatFixed(spend, 0, ",") \o " / $"
                          \o FormatFixed(total_budget, 0, ",") \o ")"])

\* "Performance by App", up to the call of format_metrics.
AppLevel(t, days) ==
    MapRows(aggregate_data(t, <<"App Name">>), LAMBDA r :
        LET total_budget == Mul(Num(DailyCap(r["App Name"])), days)
            used == Mul(Div(r["Spend ($)"], total_budget), Num(100))
        IN  [c \in DOMAIN r \cup {"Total Budget ($)", "% of Budget Used"} |->
                CASE c = "Total Budget ($)" -> total_budget
                  [] c = "% of Budget Used" -> RoundedText(used)
                  [] c = "ROAS D7" -> PercentText(r[c])
                  [] OTHER -> r[c]])

\* sum(daily_budget.get(...) for app in selected_app_names)
RECURSIVE SumCaps(_)
SumCaps(names) ==
    IF names = <<>> THEN 0 ELSE DailyCap(names[1]) + SumCaps(Tail(names))

DayTotalBudget(t) == SumCaps(Unique(Column(t, "App Name")))

\* "Performance by Day", up to the call of format_metrics.  groupby has
\* sorted the groups by Date already; sort_values("Date") keeps them so.
DayLevel(t) ==
    MapRows(aggregate_data(t, <<"Date">>), LAMBDA r :
        LET total_budget == Num(DayTotalBudget(t))
            used == Mul(Div(r["Spend ($)"], total_budget), Num(100))
        IN  [c \in DOMAIN r \cup {"Total Budget ($)", "% of Budget Used"} |->
                CASE c = "Total Budget ($)" -> total_budget
                  [] c = "% of Budget Used" -> RoundedText(used)
                  [] c = "ROAS D7" -> PercentText(r[c])
                  [] OTHER -> r[c]])

-----------------------------------------------------------------------------
(* App Analysis tab *)

\* st.selectbox over no options returns None, whose str() is "None".
None == <<"None">>

\* df[df["App Name"] == selected_app]
AppDf(d, app) == SelectSeq(d, LAMBDA r : r["App Name"] = app)

\* The four "App-level KPIs".
AppKpis(app_df) ==
    [spend |-> Str(FormatFixed(SumCells(Column(app_df, "Spend ($)")), 0, ",")),
     revenue |-> Str(FormatFixed(SumCells(Column(app_df, "Revenue D7")), 0, ",")),
     installs |-> Str(FormatFixed(SumCells(Column(app_df, "Installs")), 0, ",")),
     roas |-> Str(FormatFixed(RoasPct(app_df), 1, "") \o "%")]

SummaryCols ==
    {"Spend ($)", "Revenue D7", "Installs", "Payers D7",
     "CPI", "CPM", "IPM", "ROAS D7", "Payers %", "ARPI", "ARPP"}

\* "Campaign Summary", up to the column selection.
CampaignSummary(app_df, app) ==
    LET budget == Num(DailyCap(app) * Len(Unique(Column(app_df, "Date"))))
    IN  MapRows(aggregate_data(app_df, <<"App Name", "Campaign Id">>), LAMBDA r :
            [c \in DOMAIN r \cup {"% of Budget Used"} |->
                CASE c = "% of Budget Used" ->
                        RoundedText(Mul(Div(r["Spend ($)"], budget), Num(100)))
                  [] c = "ROAS D7" -> PercentText(r[c])
                  [] OTHER -> r[c]])

\* A summary by the given keys with ROAS D7 as text: "Aggregated Creative
\* Performance", and the table inside each campaign expander.
CreativeSummary(t, cols) ==
    MapRows(aggregate_data(t, cols), LAMBDA r :
        [c \in DOMAIN r |-> IF c = "ROAS D7" THEN PercentText(r[c]) ELSE r[c]])

\* The "Campaign Details" loop over app_df.groupby("Campaign Id").
CampaignDetails(app_df) ==
    LET ids == GroupKeys(app_df, <<"Campaign Id">>)
    IN  [i \in 1..Len(ids) |->
            LET campaign_df_sub == GroupRows(app_df, <<"Campaign Id">>, ids[i])
                creative_df == CreativeSummary(campaign_df_sub,
                                   <<"App Name", "Campaign Id", "Creative Id">>)
            IN  [campaign_id |-> ids[i][1],
                 spend |-> Str(FormatFixed(
                               SumCells(Column(campaign_df_sub, "Spend ($)")), 0, ",")),
                 roas |-> Str(FormatFixed(RoasPct(campaign_df_sub), 1, "") \o "%"),
                 shown |-> format_metrics(
                               Project(creative_df, {"Creative Id"} \cup SummaryCols)).ret]]

-----------------------------------------------------------------------------
(* One run of the script *)

\* The script from the sidebar to the last table, on the dataset d.  On the
\* first run every widget returns its default; later the user has chosen.
Script(d, first) ==
    LET apps == Unique(Column(d, "App Name"))
    IN
    \E sa \in (IF first THEN {apps} ELSE Sublists(apps)) :
    LET f1 == IsIn(d, "App Name", sa)
        campaigns == Unique(Column(f1, "Campaign Id"))
    IN
    \E sc \in (IF first THEN {campaigns} ELSE Sublists(campaigns)) :
    LET f2 == IsIn(f1, "Campaign Id", sc)
        creatives == Unique(Column(f2, "Creative Id"))
    IN
    \E scr \in (IF first THEN {creatives} ELSE Sublists(creatives)) :
    LET f3 == IsIn(f2, "Creative Id", scr)
        bounds == DateBounds(f3)
    IN
    \E dates \in (IF first THEN {bounds} ELSE DateInputs(bounds)) :
    \E app \in (IF apps = <<>> THEN {None}
                ELSE IF first THEN {apps[1]} ELSE Range(apps)) :
    LET f == DateFilter(f3, dates)
        days == NumDays(f, dates)
        app_fmt == format_metrics(AppLevel(f, days))
        day_fmt == format_metrics(DayLevel(f))
        app_df == AppDf(d, app)
        camp == CampaignSummary(app_df, app)
        crea == CreativeSummary(app_df, <<"App Name", "Creative Id">>)
    IN  /\ selected_apps' = sa
        /\ selected_campaigns' = sc
        /\ selected_creatives' = scr
        /\ selected_dates' = dates
        /\ filtered_df' = f
        /\ kpi' = GeneralKpis(f)
        /\ num_days' = days
        /\ progress' = BudgetBars(f, days)
        /\ app_level_df' = app_fmt.df
        /\ app_level_shown' = app_fmt.ret
        /\ day_level_df' = day_fmt.df
        /\ day_level_shown' = day_fmt.ret
        /\ selected_app' = app
        /\ app_kpi' = AppKpis(app_df)
        /\ campaign_df' = camp
        /\ campaign_shown' =
               format_metrics(Project(camp,
                   {"Campaign Id", "% of Budget Used"} \cup SummaryCols)).ret
        /\ creative_summary_df' = crea
        /\ creative_shown' =
               format_metrics(Project(crea, {"Creative Id"} \cup SummaryCols)).ret
        /\ campaign_details' = CampaignDetails(app_df)

Init ==
    /\ csv \in {[i \in 1..Len(s) |-> CsvRows[s[i]]] : s \in CsvSubsets}
    /\ df = <<>> /\ pc = "load" /\ group_cols = <<>> /\ agg = <<>>
    /\ DashIdle

\* The first run of a session: load_data() runs and is cached.
FirstRun ==
    /\ pc = "load"
    /\ df' = load_data(csv)
    /\ Script(load_data(csv), TRUE)
    /\ pc' = "shown"
    /\ UNCHANGED <<csv, group_cols, agg>>

\* The user touches a widget: Streamlit discards the script's variables and
\* schedules a rerun; the cached dataset stays.
Interact ==
    /\ pc = "shown"
    /\ pc' = "loaded"
    /\ selected_apps' = <<>> /\ selected_campaigns' = <<>>
    /\ selected_creatives' = <<>> /\ selected_dates' = <<>>
    /\ filtered_df' = <<>> /\ num_days' = NaN /\ kpi' = <<>> /\ progress' = <<>>
    /\ app_level_df' = <<>> /\ app_level_shown' = <<>>
    /\ day_level_df' = <<>> /\ day_level_shown' = <<>>
    /\ selected_app' = <<>> /\ app_kpi' = <<>>
    /\ campaign_df' = <<>> /\ campaign_shown' = <<>>
    /\ creative_summary_df' = <<>> /\ creative_shown' = <<>>
    /\ campaign_details' = <<>>
    /\ UNCHANGED <<csv, df, group_cols, agg>>

\* A rerun: load_data() returns the cached dataset.
Rerun ==
    /\ pc = "loaded"
    /\ Script(df, FALSE)
    /\ pc' = "shown"
    /\ UNCHANGED <<csv, df, group_cols, agg>>

Next == FirstRun \/ Interact \/ Rerun

Spec == Init /\ [][Next]_vars

-----------------------------------------------------------------------------
(* The filter and budget contracts of the specification, on their own terms *)

\* The records of d that satisfy all four criteria.
Matching(d, appSet, campaignSet, creativeSet, start, end) ==
    SelectSeq(d, LAMBDA r :
        /\ r["App Name"] \in appSet
        /\ r["Campaign Id"] \in campaignSet
        /\ r["Creative Id"] \in creativeSet
        /\ start <= r["Date"] /\ r["Date"] <= end)

\* The records of d that satisfy the three membership criteria.
MatchingSets(d, appSet, campaignSet, creativeSet) ==
    SelectSeq(d, LAMBDA r :
        /\ r["App Name"] \in appSet
        /\ r["Campaign Id"] \in campaignSet
        /\ r["Creative Id"] \in creativeSet)

\* utilizationPct(spend, totalBudget)
UtilizationPct(spend, totalBudget) ==
    IF totalBudget.k = "num" /\ totalBudget.n > 0
    THEN Float(spend.n * 100 * totalBudget.d, spend.d * totalBudget.n)
    ELSE Num(0)

\* The name without its surrounding whitespace.
Trimmed(name) ==
    LET inner == {i \in 1..Len(name) : ~IsSpace(name[i])}
    IN  IF inner = {} THEN <<>>
        ELSE SubSeq(name, CHOOSE i \in inner : \A j \in inner : i <= j,
                          CHOOSE i \in inner : \A j \in inner : i >= j)

\* dailyCap(appName)
ConfiguredCap(name) == IF Trimmed(name) = <<"MaxiBingo">> THEN 4000 ELSE 2000

RECURSIVE SumOfCaps(_)
SumOfCaps(S) ==
    IF S = {} THEN 0
    ELSE LET a == CHOOSE x \in S : TRUE IN ConfiguredCap(a) + SumOfCaps(S \ {a})

DistinctDays(t) == Cardinality(Range(Column(t, "Date")))

Max2(a, b) == IF a >= b THEN a ELSE b

-----------------------------------------------------------------------------
(* C4: the record set left by the sidebar is exactly the records whose app *)
(* name, campaign id and creative id are in the selected sets and, when a  *)
(* start and an end date are selected, whose date lies in [start, end];    *)
(* an empty selection in any one dimension leaves no record.               *)
C4_FilterExact ==
    pc = "shown" =>
        /\ Len(selected_dates) = 2 =>
            filtered_df = Matching(df, Range(selected_apps), Range(selected_campaigns),
                                   Range(selected_creatives),
                                   selected_dates[1], selected_dates[2])
        /\ Len(selected_dates) # 2 =>
            filtered_df = MatchingSets(df, Range(selected_apps),
                                       Range(selected_campaigns),
                                       Range(selected_creatives))
        /\ (selected_apps = <<>> \/ selected_campaigns = <<>>
                \/ selected_creatives = <<>>) => filtered_df = <<>>

\* One record is kept, one is dropped by the date range alone and one by a
\* selection alone.
C4_Witness ==
    /\ pc = "shown" /\ Len(selected_dates) = 2 /\ Len(filtered_df) = 1
    /\ selected_dates[1] <= selected_dates[2]
    /\ \E i \in 1..Len(df) :
        /\ df[i]["App Name"] \in Range(selected_apps)
        /\ df[i]["Campaign Id"] \in Range(selected_campaigns)
        /\ df[i]["Creative Id"] \in Range(selected_creatives)
        /\ df[i]["Date"] > selected_dates[2]
    /\ \E i \in 1..Len(df) :
        /\ df[i]["Date"] >= selected_dates[1] /\ df[i]["Date"] <= selected_dates[2]
        /\ df[i]["App Name"] \in Range(selected_apps)
        /\ df[i]["Campaign Id"] \notin Range(selected_campaigns)

(* C5: with every app, campaign and creative of the dataset selected and   *)
(* the date range running from the earliest to the latest date of the      *)
(* data, the filtered record set is the dataset itself.                    *)
C5_DefaultSelectionKeepsAll ==
    ( /\ pc = "shown"
      /\ selected_apps = Unique(Column(df, "App Name"))
      /\ selected_campaigns = Unique(Column(df, "Campaign Id"))
      /\ selected_creatives = Unique(Column(df, "Creative Id"))
      /\ (df = <<>> \/ selected_dates = <<ColMin(df, "Date"), ColMax(df, "Date")>>) )
    => filtered_df = df

\* The default selection over three records on more than one day.
C5_Witness ==
    /\ pc = "shown" /\ Len(df) = 3 /\ DistinctDays(df) >= 2
    /\ selected_apps = Unique(Column(df, "App Name"))
    /\ Len(selected_apps) >= 2
    /\ selected_campaigns = Unique(Column(df, "Campaign Id"))
    /\ selected_creatives = Unique(Column(df, "Creative Id"))
    /\ selected_dates = <<ColMin(df, "Date"), ColMax(df, "Date")>>
    /\ filtered_df = df

(* C6: in every budget view the utilization is spend / totalBudget * 100   *)
(* when totalBudget > 0 and 0 otherwise (the tables show it rounded to one *)
(* decimal), so utilizationPct(0, 1000) = 0 and utilizationPct(500, 0) = 0 *)
(* in the progress bars, and no view shows an infinite, undefined or       *)
(* negative percentage.                                                    *)
C6_Utilization ==
    pc = "shown" =>
        /\ \A i \in 1..Len(progress) :
            /\ progress[i].pct_used
                   = UtilizationPct(progress[i].spend, progress[i].total_budget)
            /\ progress[i].pct_used.k = "num" /\ progress[i].pct_used.n >= 0
        /\ PctUsed(Num(0), Num(1000)) = Num(0)
        /\ PctUsed(Num(500), Num(0)) = Num(0)
        /\ \A i \in 1..Len(app_level_df) :
            app_level_df[i]["% of Budget Used"]
                = RoundedText(UtilizationPct(app_level_df[i]["Spend ($)"],
                                             app_level_df[i]["Total Budget ($)"]))
        /\ \A i \in 1..Len(day_level_df) :
            day_level_df[i]["% of Budget Used"]
                = RoundedText(UtilizationPct(day_level_df[i]["Spend ($)"],
                                             day_level_df[i]["Total Budget ($)"]))
        /\ \A i \in 1..Len(campaign_df) :
            campaign_df[i]["% of Budget Used"]
                = RoundedText(UtilizationPct(campaign_df[i]["Spend ($)"],
                      Num(ConfiguredCap(selected_app)
                              * DistinctDays(AppDf(df, selected_app)))))

\* A one-day range in which an app has spent part of its budget, shown in
\* the bars, in both tables of the General tab and in the Campaign Summary.
C6_Witness ==
    /\ pc = "shown" /\ Len(selected_dates) = 2
    /\ selected_dates[1] = selected_dates[2]
    /\ \E i \in 1..Len(progress) :
        /\ progress[i].pct_used.n > 0
        /\ progress[i].pct_used = Float(5, 2)
        /\ app_level_df[i]["% of Budget Used"] = Str("2.5%")
    /\ \E i \in 1..Len(day_level_df) : day_level_df[i]["Spend ($)"].n > 0
    /\ \E i \in 1..Len(campaign_df) : campaign_df[i]["Spend ($)"].n > 0

(* C7: for every selected date range, one whose end is before its start    *)
(* included, the day count behind every app's budget is                    *)
(* num_days = max(1, (end - start).days + 1), so that no app's total       *)
(* budget dailyCap(app) * num_days is zero or negative.                    *)
C7_NumDaysFloor ==
    (pc = "shown" /\ Len(selected_dates) = 2) =>
        \A a \in Range(Column(df, "App Name")) :
            /\ num_days = Num(Max2(1, selected_dates[2] - selected_dates[1] + 1))
            /\ Positive(Mul(Num(DailyCap(a)), num_days))

(* C8: every row of Performance by Day carries the same total budget: the  *)
(* sum of dailyCap over the distinct app names of the filtered records,    *)
(* 4000 for a name that is "MaxiBingo" once trimmed (case-sensitive) and   *)
(* 2000 for any other; the length of the date range plays no part.         *)
C8_DayBudget ==
    /\ DailyCap(<<"MaxiBingo">>) = 4000
    /\ DailyCap(<<"UnknownApp">>) = 2000
    /\ pc = "shown" =>
        \A i \in 1..Len(day_level_df) :
            day_level_df[i]["Total Budget ($)"]
                = Num(SumOfCaps(Range(Column(filtered_df, "App Name"))))

\* Two day rows over a three-day range; the filtered records have the apps
\* "MaxiBingo" and " MaxiBingo", the dataset has "maxibingo" as well.
C8_Witness ==
    /\ pc = "shown" /\ Len(day_level_df) = 2 /\ num_days = Num(3)
    /\ Range(Column(filtered_df, "App Name")) = {<<"MaxiBingo">>, <<" ", "MaxiBingo">>}
    /\ <<"maxibingo">> \in Range(Column(df, "App Name"))
    /\ \A i \in 1..2 : day_level_df[i]["Total Budget ($)"] = Num(8000)

(* C9: every table and KPI of the dashboard is computed from the filtered  *)
(* record set: the sums of the General tab, and in the App Analysis tab    *)
(* the campaign and creative sums of the chosen app, count only records    *)
(* that passed the app, campaign, creative and date filters.               *)
C9_TablesFromFiltered ==
    pc = "shown" =>
        LET shown_app == AppDf(filtered_df, selected_app)
        IN  /\ \A i \in 1..Len(app_level_df) : \A c \in SumCols :
                app_level_df[i][c]
                    = SumOver(filtered_df, c,
                              Members(filtered_df, <<"App Name">>, app_level_df[i]))
            /\ \A i \in 1..Len(day_level_df) : \A c \in SumCols :
                day_level_df[i][c]
                    = SumOver(filtered_df, c,
                              Members(filtered_df, <<"Date">>, day_level_df[i]))
            /\ Len(campaign_df)
                   = Cardinality(Range(Column(shown_app, "Campaign Id")))
            /\ \A i \in 1..Len(campaign_df) : \A c \in SumCols :
                campaign_df[i][c]
                    = SumOver(shown_app, c,
                              Members(shown_app, <<"Campaign Id">>, campaign_df[i]))
            /\ Len(creative_summary_df)
                   = Cardinality(Range(Column(shown_app, "Creative Id")))
            /\ \A i \in 1..Len(creative_summary_df) : \A c \in SumCols :
                creative_summary_df[i][c]
                    = SumOver(shown_app, c,
                              Members(shown_app, <<"Creative Id">>, creative_summary_df[i]))

(* C10: a recomputation pass leaves the cached dataset as load_data made   *)
(* it, whatever the filter criteria, and format_metrics leaves the table   *)
(* it is given unchanged: after the pass the by-app and by-day tables      *)
(* still hold the numbers they held before they were formatted.            *)
C10_DatasetUnchanged ==
    [][ /\ pc # "load" => df' = df
        /\ pc' = "shown" =>
            /\ df' = load_data(csv)
            /\ app_level_df' = AppLevel(filtered_df', num_days')
            /\ day_level_df' = DayLevel(filtered_df')
            /\ \A i \in 1..Len(app_level_df') :
                \A c \in thousand_cols \cup percent_cols \cup decimal_cols :
                    app_level_df'[i][c].k = "num" ]_vars

\* A pass under a narrowed selection whose by-app table was formatted for
\* display.
C10_Witness ==
    /\ pc = "shown" /\ df = load_data(csv) /\ Len(df) = 3
    /\ Len(filtered_df) = 2
    /\ app_level_df # <<>> /\ app_level_shown # app_level_df
    /\ app_level_df[1]["Spend ($)"].k = "num"
    /\ app_level_shown[1]["Spend ($)"].k = "str"

====
